---- MODULE Spec2Model ----
(***************************************************************************)
(* Drift correction of snomtools (snomtools/evaluation/driftcorrection.py) *)
(* as a state machine: one run of Drift.template_matching_stack over an    *)
(* image stack, with the per-slice template matching, the sub-pixel        *)
(* refinement and the template guess as operators computed as the code     *)
(* computes them.                                                          *)
(*                                                                         *)
(* Arrays are records [shape, val] with 0-based index tuples, as numpy's.  *)
(* A correlation score is a record [num, den2] that stands for the real    *)
(* number num / sqrt(den2) (den2 > 0), so that the normed scores are exact *)
(* and comparable without real arithmetic.                                 *)
(***************************************************************************)
EXTENDS Integers, Sequences, FiniteSets, TLC

\* ------------------------------------------------------------------ bounds

\* Largest number of slices of a stack.
MaxSlices == 2

\* Pixel values are 0..MaxPix.
MaxPix == 1

\* ------------------------------------------------------------------ arrays

Pixels == 0..MaxPix

Idx2(shape) == (0..(shape[1] - 1)) \X (0..(shape[2] - 1))

Idx3(shape) == (0..(shape[1] - 1)) \X (0..(shape[2] - 1)) \X (0..(shape[3] - 1))

\* Python's list.insert(k, v) for 0 <= k <= len(s).
ListInsert(s, k, v) == SubSeq(s, 1, k) \o <<v>> \o SubSeq(s, k + 1, Len(s))

\* s with its k-th element (0-based) removed.
ListDrop(s, k) == SubSeq(s, 1, k) \o SubSeq(s, k + 2, Len(s))

\* numpy's resolution of one index i on an axis of length n: negative indices
\* count from the end, anything else out of 0..n-1 is an IndexError (-1 here).
NpIndex(n, i) ==
    IF 0 <= i /\ i < n THEN i
    ELSE IF -n <= i /\ i < 0 THEN i + n
    ELSE -1

\* The function f as an enumerated table (the same function, evaluated once).
Table(f) == f @@ <<>>

RECURSIVE SumFn(_, _)
\* f[0] + ... + f[n-1]
SumFn(f, n) == IF n = 0 THEN 0 ELSE f[n - 1] + SumFn(f, n - 1)

\* ------------------------------------------------ cv2 (the matching primitive)

\* The method constants of cv2 (TM_SQDIFF = 0 ... TM_CCOEFF_NORMED = 5).
TM_SQDIFF == 0

TM_SQDIFF_NORMED == 1

TM_CCORR == 2

TM_CCORR_NORMED == 3

TM_CCOEFF == 4

TM_CCOEFF_NORMED == 5

\* The six method names the source enumerates.
MethodNames ==
    {"cv.TM_CCOEFF", "cv.TM_CCOEFF_NORMED", "cv.TM_CCORR", "cv.TM_CCORR_NORMED",
     "cv.TM_SQDIFF", "cv.TM_SQDIFF_NORMED"}

\* Names outside the enumerated set: an attribute cv2 does not have, and two
\* cv2 constants that are no matching methods (INTER_LINEAR = 1, COLOR_BGR2GRAY = 6).
OtherNames == {"cv.TM_FOO", "cv.INTER_LINEAR", "cv.COLOR_BGR2GRAY"}

\* eval(method): the value of the Python expression the string holds.
eval(name) ==
    CASE name = "cv.TM_SQDIFF" -> [exc |-> "none", val |-> TM_SQDIFF]
      [] name = "cv.TM_SQDIFF_NORMED" -> [exc |-> "none", val |-> TM_SQDIFF_NORMED]
      [] name = "cv.TM_CCORR" -> [exc |-> "none", val |-> TM_CCORR]
      [] name = "cv.TM_CCORR_NORMED" -> [exc |-> "none", val |-> TM_CCORR_NORMED]
      [] name = "cv.TM_CCOEFF" -> [exc |-> "none", val |-> TM_CCOEFF]
      [] name = "cv.TM_CCOEFF_NORMED" -> [exc |-> "none", val |-> TM_CCOEFF_NORMED]
      [] name = "cv.INTER_LINEAR" -> [exc |-> "none", val |-> 1]
      [] name = "cv.COLOR_BGR2GRAY" -> [exc |-> "none", val |-> 6]
      [] OTHER -> [exc |-> "AttributeError", val |-> -1]

\* A score num / sqrt(den2).
Score(num, den2) == [num |-> num, den2 |-> den2]

\* sign(n) * n^2: monotone in n, so scores are compared without square roots.
SgnSq(n) == IF n < 0 THEN -(n * n) ELSE n * n

\* a < b for two scores.
Less(a, b) == SgnSq(a.num) * b.den2 < SgnSq(b.num) * a.den2

\* The normalisation of cv2's matchTemplate: num / t when |num| < t, else
\* +-1 when |num| < 1.125 t, else 0 (1 for TM_SQDIFF_NORMED); t2 is t squared.
Normed(num, t2, m) ==
    IF num * num < t2 THEN Score(num, t2)
    ELSE IF 64 * num * num < 81 * t2 THEN Score(IF num > 0 THEN 1 ELSE -1, 1)
    ELSE Score(IF m = TM_SQDIFF_NORMED THEN 1 ELSE 0, 1)

\* The score of templ laid on img with its top-left corner at row r, column c.
CellScore(img, templ, m, r, c) ==
    LET h == templ.shape[1]
        w == templ.shape[2]
        N == h * w
        T == [k \in 0..(N - 1) |-> templ.val[<<k \div w, k % w>>]]
        I == [k \in 0..(N - 1) |-> img.val[<<r + (k \div w), c + (k % w)>>]]
        TT == SumFn([k \in 0..(N - 1) |-> T[k] * T[k]], N)
        II == SumFn([k \in 0..(N - 1) |-> I[k] * I[k]], N)
        TI == SumFn([k \in 0..(N - 1) |-> T[k] * I[k]], N)
        ST == SumFn(T, N)
        SI == SumFn(I, N)
    IN  CASE m = TM_SQDIFF -> Score(TT - 2 * TI + II, 1)
          [] m = TM_SQDIFF_NORMED -> Normed(TT - 2 * TI + II, TT * II, m)
          [] m = TM_CCORR -> Score(TI, 1)
          [] m = TM_CCORR_NORMED -> Normed(TI, TT * II, m)
          [] m = TM_CCOEFF -> Score(N * TI - ST * SI, N * N)
          [] OTHER -> Normed(N * TI - ST * SI, (N * II - SI * SI) * (N * TT - ST * ST), m)

\* cv.matchTemplate(array, template, method): the correlation surface, of shape
\* image - template + 1; cv2 swaps the two arrays when the template is at least
\* as large as the image in both dimensions and larger in one, and raises when
\* it is larger in one dimension only or the method is none of the six.
matchTemplate(array, template, m) ==
    LET needswap == \/ array.shape[1] < template.shape[1]
                    \/ array.shape[2] < template.shape[2]
        img == IF needswap THEN template ELSE array
        templ == IF needswap THEN array ELSE template
        corr == <<img.shape[1] - templ.shape[1] + 1, img.shape[2] - templ.shape[2] + 1>>
    IN  IF m \notin TM_SQDIFF..TM_CCOEFF_NORMED THEN [exc |-> "cv2.error"]
        ELSE IF needswap /\ ~(/\ array.shape[1] <= template.shape[1]
                              /\ array.shape[2] <= template.shape[2])
        THEN [exc |-> "cv2.error"]
        ELSE [exc |-> "none",
              res |-> [shape |-> corr,
                       val |-> Table([p \in Idx2(corr) |->
                                        CellScore(img, templ, m, p[1], p[2])])]]

\* Row-major scan order of two cells <<row, col>>.
ScanLE(p, q) == p[1] < q[1] \/ (p[1] = q[1] /\ p[2] <= q[2])

\* The first cell of S in scan order.
FirstCell(S) == CHOOSE p \in S : \A q \in S : ScanLE(p, q)

\* cv.minMaxLoc(res): the locations of the global minimum and maximum, each the
\* first one met in scan order, as points (x, y) = (column, row).
minMaxLoc(res) ==
    LET cells == Idx2(res.shape)
        mins == {p \in cells : \A q \in cells : ~Less(res.val[q], res.val[p])}
        maxs == {p \in cells : \A q \in cells : ~Less(res.val[p], res.val[q])}
        pmin == FirstCell(mins)
        pmax == FirstCell(maxs)
    IN  [min_val |-> res.val[pmin], max_val |-> res.val[pmax],
         min_loc |-> <<pmin[2], pmin[1]>>, max_loc |-> <<pmax[2], pmax[1]>>]

\* ------------------------------------------------------------------ Drift

\* The index pairs results[., .] that subpixel_peak reads for max_var = (x, y),
\* as written in the source: first index x-1, x+1, x; second index y-1, y+1.
PeakReads(max_var) ==
    LET x == max_var[1]
        y == max_var[2]
    IN  [xlo |-> <<x - 1, y>>, xhi |-> <<x + 1, y>>, mid |-> <<x, y>>,
         ylo |-> <<x, y - 1>>, yhi |-> <<x, y + 1>>]

\* The cell <<row, col>> numpy resolves results[idx] to; <<-1, -1>> for IndexError.
NpCell(results, idx) ==
    LET r == NpIndex(results.shape[1], idx[1])
        c == NpIndex(results.shape[2], idx[2])
    IN  IF r = -1 \/ c = -1 THEN <<-1, -1>> ELSE <<r, c>>

\* Drift.subpixel_peak(max_var, results). The refined coordinates are kept as
\* the terms of the log-parabola formula: base + (ln lo - ln hi) /
\* (2 ln lo + 2 ln hi - 4 ln mid).
subpixel_peak(max_var, results) ==
    LET rd == PeakReads(max_var)
        cell == [k \in DOMAIN rd |-> NpCell(results, rd[k])]
    IN  IF \E k \in DOMAIN rd : cell[k] = <<-1, -1>> THEN [exc |-> "IndexError"]
        ELSE [exc |-> "none",
              cells |-> cell,
              val |-> <<[base |-> max_var[1], lo |-> results.val[cell.xlo],
                         mid |-> results.val[cell.mid], hi |-> results.val[cell.xhi]],
                        [base |-> max_var[2], lo |-> results.val[cell.ylo],
                         mid |-> results.val[cell.mid], hi |-> results.val[cell.yhi]]>>]

\* np.log of a score (a numpy float32 scalar): nan for a negative one and -inf
\* for zero, each with a RuntimeWarning and no exception.
np_log(s) == IF s.num < 0 THEN "nan" ELSE IF s.num = 0 THEN "-inf" ELSE "finite"

\* mid * mid = lo * hi for three positive scores: the denominator
\* 2 ln lo + 2 ln hi - 4 ln mid is zero.
ZeroDenominator(lo, mid, hi) ==
    lo.num * lo.num * hi.num * hi.num * mid.den2 * mid.den2
        = mid.num * mid.num * mid.num * mid.num * lo.den2 * hi.den2

\* The refined coordinate base + (ln lo - ln hi) / (2 ln lo + 2 ln hi - 4 ln mid)
\* of lines 97-104 as floating-point arithmetic gives it: "nan" when a log is
\* nan, when lo or hi is zero (inf - inf, inf / inf) or when the quotient is
\* 0 / 0; "inf" when the denominator alone is zero; "base" when mid alone is
\* zero (a finite numerator over an infinite denominator); and for positive
\* scores a finite coordinate "within" half a pixel of base (lo and hi on the
\* same side of mid), "half" a pixel from it (lo or hi equal to mid) or
\* "beyond" half a pixel (mid between lo and hi).
RefinedAs(t) ==
    LET logs == {np_log(t.lo), np_log(t.mid), np_log(t.hi)}
    IN  IF "nan" \in logs THEN "nan"
        ELSE IF np_log(t.lo) = "-inf" \/ np_log(t.hi) = "-inf" THEN "nan"
        ELSE IF np_log(t.mid) = "-inf" THEN "base"
        ELSE IF ZeroDenominator(t.lo, t.mid, t.hi)
        THEN (IF ~Less(t.lo, t.hi) /\ ~Less(t.hi, t.lo) THEN "nan" ELSE "inf")
        ELSE IF \/ Less(t.lo, t.mid) /\ Less(t.hi, t.mid)
                \/ Less(t.mid, t.lo) /\ Less(t.mid, t.hi) THEN "within"
        ELSE IF Less(t.lo, t.mid) \/ Less(t.hi, t.mid)
                \/ Less(t.mid, t.lo) \/ Less(t.mid, t.hi)
        THEN (IF \/ ~Less(t.lo, t.mid) /\ ~Less(t.mid, t.lo)
                 \/ ~Less(t.hi, t.mid) /\ ~Less(t.mid, t.hi) THEN "half" ELSE "beyond")
        ELSE "nan"

\* A branch that tests TM_SQDIFF alone: TM_SQDIFF_NORMED takes the maximum.
ExtremumFor_SqdiffOnly(m, mm) == IF m = TM_SQDIFF THEN mm.min_loc ELSE mm.max_loc

\* The two branches exchanged.
ExtremumFor_Exchanged(m, mm) ==
    IF m \in {TM_SQDIFF, TM_SQDIFF_NORMED} THEN mm.max_loc ELSE mm.min_loc

\* Lines 77-86: min_loc for the two SSD methods, max_loc for any other.
ExtremumFor(m, mm) ==
    IF m \in {TM_SQDIFF, TM_SQDIFF_NORMED} THEN mm.min_loc ELSE mm.max_loc

\* Drift.template_matching(array, template, method, subpixel): the outcome
\* (exc, top_left) with the locals of the call (res, the extremum passed on).
template_matching(array, template, methodname, subpix) ==
    LET ev == eval(methodname)
        mt == matchTemplate(array, template, ev.val)
        mm == minMaxLoc(mt.res)
        loc == ExtremumFor(ev.val, mm)
        sp == subpixel_peak(loc, mt.res)
    IN  IF ev.exc # "none" THEN [exc |-> ev.exc, at |-> "eval"]
        ELSE IF mt.exc # "none" THEN [exc |-> mt.exc, at |-> "matchTemplate"]
        ELSE IF ~subpix THEN [exc |-> "none", at |-> "return", res |-> mt.res, loc |-> loc,
                              top_left |-> loc]
        ELSE IF sp.exc # "none" THEN [exc |-> sp.exc, at |-> "subpixel_peak", res |-> mt.res,
                                      loc |-> loc]
        ELSE [exc |-> "none", at |-> "return", res |-> mt.res, loc |-> loc,
              cells |-> sp.cells, top_left |-> sp.val]

\* The stack axis as the caller names it: an index, a label or None.
AxisIndex(k) == [tag |-> "index", index |-> k]

\* data.shape[stackAxisID] of line 55: the number of iterations, or the
\* exception Python raises for a subscript that is no valid index.
LoopCount(data, stackAxisID) ==
    IF stackAxisID.tag # "index" THEN [exc |-> "TypeError", n |-> 0]
    ELSE IF NpIndex(Len(data.shape), stackAxisID.index) = -1
    THEN [exc |-> "IndexError", n |-> 0]
    ELSE [exc |-> "none", n |-> data.shape[NpIndex(Len(data.shape), stackAxisID.index) + 1]]

\* data.data[slice_] of lines 56-59: slicebase = [:, :] with i inserted at
\* position stackAxisID, so the 2-D array of the other two axes, in order.
SliceAt(data, k, i) ==
    LET shape == ListDrop(data.shape, k)
    IN  [shape |-> shape,
         val |-> Table([p \in Idx2(shape) |-> data.val[ListInsert(p, k, i)]])]

\* ------------------------------------------- snomtools.data.datasets (used)

AxisLabel(l) == [tag |-> "label", label |-> l]

AxisNone == [tag |-> "None"]

\* DataSet.get_axis_index(id): an index stands for itself, a label for the
\* position of the axis that carries it.
get_axis_index(ds, id) ==
    IF id.tag = "index" THEN id.index
    ELSE CHOOSE k \in 0..(Len(ds.labels) - 1) : ds.labels[k + 1] = id.label

\* DataSet.project_nd(*axes).get_datafield(0) for axes that are all the axes of
\* the dataset: the array with its axes in the order given.
project_nd(ds, axes) ==
    LET shape == [j \in 1..Len(axes) |-> ds.arr.shape[axes[j] + 1]]
        cells == IF Len(axes) = 3 THEN Idx3(shape) ELSE Idx2(shape)
        pos(k) == CHOOSE j \in 1..Len(axes) : axes[j] = k
    IN  [shape |-> shape,
         val |-> [p \in cells |-> ds.arr.val[[k \in 1..Len(axes) |-> p[pos(k - 1)]]]]]

\* ROI(data, limitlist, by_index=True).project_nd(x, y).get_datafield(0): the
\* region of the reference (first) slice within the index limits, both ends
\* included, as an (x, y) array.
roi_field(ds, xAxis, yAxis, limits) ==
    LET shape == <<limits.x[2] - limits.x[1] + 1, limits.y[2] - limits.y[1] + 1>>
        other == CHOOSE k \in 0..2 : k # xAxis /\ k # yAxis
        full(p) == [k \in 1..3 |-> IF k - 1 = xAxis THEN limits.x[1] + p[1]
                                   ELSE IF k - 1 = yAxis THEN limits.y[1] + p[2]
                                   ELSE 0]
    IN  [shape |-> shape, val |-> [p \in Idx2(shape) |-> ds.arr.val[full(p)]]]

\* ------------------------------------------------------ Drift, the constructor

\* Line 133 with the fraction grouped: dim * (2 / 5).
GuessLimits_Grouped(dim) == <<dim * (2 \div 5), dim * (3 \div 5)>>

\* Line 133 for one axis of length dim: (dim * 2 / 5, dim * 3 / 5), in the
\* integer arithmetic of the Python 2 the module is written in (no
\* "from __future__ import division", a print statement in calcs/constants.py).
GuessLimits(dim) == <<(dim * 2) \div 5, (dim * 3) \div 5>>

\* Drift.guess_templatedata(data, xAxisID, yAxisID): the limit list and the
\* field of the region of interest.
guess_templatedata(ds, xAxisID, yAxisID) ==
    LET xA == get_axis_index(ds, xAxisID)
        yA == get_axis_index(ds, yAxisID)
        fieldshape == <<ds.arr.shape[xA + 1], ds.arr.shape[yA + 1]>>
        limits == [x |-> GuessLimits(fieldshape[1]), y |-> GuessLimits(fieldshape[2])]
    IN  [limitlist |-> limits, fieldshape |-> fieldshape,
         field |-> roi_field(ds, xA, yA, limits)]

\* Drift.extract_templatedata(data, xAxisID, yAxisID).
extract_templatedata(ds, xAxisID, yAxisID) ==
    project_nd(ds, <<get_axis_index(ds, xAxisID), get_axis_index(ds, yAxisID)>>)

\* Drift.extract_3Ddata(data, stackAxisID, xAxisID, yAxisID), its datafield.
extract_3Ddata(ds, sA, xA, yA) == project_nd(ds, <<sA, xA, yA>>)

\* The defaults of template_matching_stack, which line 50 leaves in force.
DefaultMethod == "cv.TM_CCOEFF_NORMED"

DefaultSubpixel == TRUE

\* ------------------------------------------------------------------ inputs

\* The shape of the slices and of the template of the main input family.
SliceShape == <<3, 5>>

TemplateShape == <<1, 2>>

\* Slice shapes the template does not fit in: narrower than the template and
\* as high (cv2 swaps), narrower and higher (cv2 raises).
SmallShapes == {<<1, 1>>, <<2, 1>>}

Images(shape) == {[shape |-> shape, val |-> f] : f \in [Idx2(shape) -> Pixels]}

Const(shape, v) == [shape |-> shape, val |-> [p \in Idx2(shape) |-> v]]

\* img with patch written at offset off = (dx, dy) = (column, row).
Paste(img, patch, off) ==
    [shape |-> img.shape,
     val |-> [p \in Idx2(img.shape) |->
                IF /\ off[2] <= p[1] /\ p[1] < off[2] + patch.shape[1]
                   /\ off[1] <= p[2] /\ p[2] < off[1] + patch.shape[2]
                THEN patch.val[<<p[1] - off[2], p[2] - off[1]>>]
                ELSE img.val[p]]]

\* The offsets (dx, dy) at which a patch of shape ps lies within shape s.
Offsets(s, ps) == (0..(s[2] - ps[2])) \X (0..(s[1] - ps[1]))

\* The slice shows patch at offset off.
OccursAt(slice, patch, off) ==
    /\ off \in Offsets(slice.shape, patch.shape)
    /\ \A q \in Idx2(patch.shape) : slice.val[<<off[2] + q[1], off[1] + q[2]>>] = patch.val[q]

\* The slices of a stack run: the template on a dark background at one of a
\* few offsets (interior of the surface, first column, a later column).
StackOffsets == {<<1, 1>>, <<0, 1>>, <<2, 1>>}

\* The method names of a stack run: two enumerated ones and the others.
StackMethods == {"cv.TM_CCOEFF_NORMED", "cv.TM_SQDIFF"} \cup OtherNames

StackSlices(t) == {Paste(Const(SliceShape, 0), t, off) : off \in StackOffsets}

\* The slices of a single match: the template at any offset on a dark or a
\* bright uniform background, alone or with one hot pixel, brighter than any
\* pixel of the template, written over the middle row of the slice.
MatchSlices(t) ==
    LET base == {Paste(Const(SliceShape, bg), t, off) :
                   bg \in {0, MaxPix}, off \in Offsets(SliceShape, TemplateShape)}
    IN  base \cup {Paste(b, Const(<<1, 1>>, MaxPix + 1), <<q[2], q[1]>>) :
                     b \in base, q \in {c \in Idx2(SliceShape) : c[1] = 1}}

\* The shape of the slices of a refinement run: with the template's shape the
\* surface is 4 x 4 and has interior cells off its diagonal.
PeakShape == <<4, 5>>

\* The slices of a refinement run: a bright uniform background with two
\* brighter pixels, one brighter than the other, anywhere.
PeakSlices ==
    {Paste(Paste(Const(PeakShape, MaxPix), Const(<<1, 1>>, MaxPix + 2), <<p[2], p[1]>>),
           Const(<<1, 1>>, MaxPix + 1), <<q[2], q[1]>>) :
        p \in Idx2(PeakShape), q \in Idx2(PeakShape)}

\* The methods of a refinement run: maximum-based, with positive scores.
PeakMethods == {"cv.TM_CCORR", "cv.TM_CCORR_NORMED"}

\* Lengths of the spatial axes of the datasets given to the constructor.
MaxDim == 6

\* The shapes (x, y) of those datasets: every length on either axis.
CtorShapes == {<<d, 5>> : d \in 1..MaxDim} \cup {<<3, d>> : d \in 1..MaxDim}

\* The k-th slice of such a dataset: dark, with one bright pixel that moves.
Dot(shape, k) ==
    [shape |-> shape,
     val |-> [p \in Idx2(shape) |->
                IF p = <<k % shape[1], (k + 1) % shape[2]>> THEN MaxPix ELSE 0]]

\* The 3-D array that holds the slices of stack along axis k (0-based).
StackAlong(stack, shape2, k) ==
    LET shape == ListInsert(shape2, k, Len(stack))
    IN  [shape |-> shape,
         val |-> [p \in Idx3(shape) |-> stack[p[k + 1] + 1].val[ListDrop(p, k)]]]

\* --------------------------------------------- snomtools.data.imports.tiff

\* A path as os.path sees it: the directory it names (relative to the working
\* directory, or absolute) and the name of the file.
Path(dir, base) == [dir |-> dir, base |-> base]

\* os.path.abspath(filepath) of lines 79 and 153.
abspath(filepath) ==
    IF filepath.dir = "/data" THEN filepath ELSE Path("/cwd", filepath.base)

\* os.path.basename(filepath) of lines 80 and 154.
basename(filepath) == filepath.base

\* A tag of a tiff page: its name and its value, a tuple of numbers.
TiffTag(name, value) == [name |-> name, value |-> value]

\* What search_tag returns when no page has the tag: None.
None == [found |-> FALSE]

\* The tags of all pages in the order the loops of lines 37-38 meet them.
RECURSIVE AllTags(_)
AllTags(pages) ==
    IF pages = <<>> THEN <<>> ELSE pages[1].tags \o AllTags(Tail(pages))

\* search_tag(tif, tag_id): the first tag of that name, page by page, or None.
search_tag(tif, tag_id) ==
    LET tags == AllTags(tif.pages)
        hits == {k \in 1..Len(tags) : tags[k].name = tag_id}
    IN  IF hits = {} THEN None
        ELSE [found |-> TRUE, tag |-> tags[CHOOSE k \in hits : \A j \in hits : k <= j]]

\* numpy.arange(0, n) as a tuple.
arange(n) == [k \in 1..n |-> k - 1]

\* snomtools.data.datasets.Axis(values, label=...), and DataSet(label=...,
\* datafields=[dataarray], axes=[...]) as the values they are built from.
Axis(values, label) == [label |-> label, values |-> values]

DataSet(label, field, axes) ==
    [kind |-> "DataSet", label |-> label, field |-> field, axes |-> axes]

\* peem_camera_read_camware(filepath), lines 153-170, for the 2-D image the
\* file holds.
peem_camera_read_camware(filepath, tif) ==
    LET filebase == basename(abspath(filepath))
        indata == tif.pages[1].image
    IN  DataSet(filebase, indata,
                <<Axis(arange(indata.shape[1]), "y"), Axis(arange(indata.shape[2]), "x")>>)

\* peem_camera_read_terra(filepath), line 183.
peem_camera_read_terra(filepath, tif) == peem_camera_read_camware(filepath, tif)

\* peem_camera_read(filepath, mode), lines 132-140: what it returns or raises.
peem_camera_read(filepath, mode, tif) ==
    IF mode = "camware"
    THEN [exc |-> "none", ret |-> peem_camera_read_camware(filepath, tif)]
    ELSE IF mode = "terra" THEN [exc |-> "none", ret |-> [kind |-> "str", val |-> filepath]]
    ELSE IF mode = "pne" THEN [exc |-> "NotImplementedError"]
    ELSE [exc |-> "ValueError"]

\* The name of the ROI-and-bin tag, line 87.
roi_and_bin_id == "41010"

\* numpy.delete(indata, [0, 1], axis=0) of line 94, on the images of the pages.
realdata(indata) == SubSeq(indata, 3, Len(indata))

\* Line 104: [T + i * Tbin for i in range(n)].
TimeAxis(T, Tbin, n) == [k \in 1..n |-> T + (k - 1) * Tbin]

\* Lines 94-116 of peem_dld_read_terra, once T and Tbin are read: the axis
\* from the tag when the tag is true, the index range otherwise.
dld_dataset(filepath, tif, tag, T, Tbin) ==
    LET filebase == basename(abspath(filepath))
        indata == [k \in 1..Len(tif.pages) |-> tif.pages[k].image]
        rd == realdata(indata)
        shape == indata[1].shape
        taxis == IF tag.found
                 THEN Axis(TimeAxis(T, Tbin, Len(rd)), "channel")
                 ELSE Axis(arange(Len(rd)), "channel")
    IN  DataSet(filebase, rd,
                <<taxis, Axis(arange(shape[1]), "y"), Axis(arange(shape[2]), "x")>>)

\* The modes given to peem_camera_read: the three the docstring names, one
\* that only peem_dld_read knows, and one that differs by case.
CameraModes == {"camware", "terra", "pne", "dldgui", "Terra"}

\* The paths given to the readers: absolute and relative.
Paths == {Path("/data", "a.tif"), Path("run", "b.tif")}

\* The files of the camera: one page, a 2-D image, no tag of interest.
CameraFiles ==
    {[pages |-> <<[tags |-> <<>>, image |-> img]>>] :
        img \in Images(<<1, 2>>) \cup Images(<<2, 1>>)}

\* The number of time channels a DLD file holds after its sum and error images.
MaxChannels == 2

\* A ROI-and-bin tag: T, St and Tbin are value[2], value[5], value[8].
RoiTag(T, St, Tbin) == TiffTag(roi_and_bin_id, <<0, 0, T, 0, 0, St, 0, 0, Tbin>>)

\* Another tag (ImageWidth).
WidthTag == TiffTag("256", <<2>>)

\* The tags a page carries: none, another tag, the ROI-and-bin tag alone or
\* after another tag.
TagLists ==
    {<<>>, <<WidthTag>>}
        \cup {<<RoiTag(T, 4, Tbin)>> : T \in {0, 3}, Tbin \in {1, 2}}
        \cup {<<WidthTag, RoiTag(T, 4, Tbin)>> : T \in {0, 3}, Tbin \in {1, 2}}

\* The DLD files: the sum image, the error image and up to MaxChannels time
\* channels, page k an image of value k; tags on the first two pages.
DldFiles ==
    {[pages |-> [k \in 1..n |->
                   [tags |-> IF k = 1 THEN t1 ELSE IF k = 2 THEN t2 ELSE <<>>,
                    image |-> Const(<<1, 2>>, k)]]] :
        n \in 2..(MaxChannels + 2), t1 \in TagLists, t2 \in TagLists}

\* --------------------------------------------------------------- the run

VARIABLES
    stack,          \* the ImageStack the caller holds: its slices, in order
    data,           \* template_matching_stack's data: the 3-D array
    template,       \* its template: a 2-D array
    stackAxisID,    \* its stackAxisID
    method,         \* its method: the name of a cv2 constant
    subpixel,       \* its subpixel flag
    pc,             \* "call", "loop", "returned" or "raised"
    i,              \* the loop variable of line 55
    driftlist,      \* the list of line 54
    result,         \* what the caller got back (when pc = "returned")
    exc,            \* the exception the caller got (when pc = "raised")
    frame,          \* the locals of the last template_matching call
    ctor,           \* the arguments of Drift(...), when the run is a construction
    limitlist,      \* guess_templatedata's limitlist, once it has run
    tiff            \* a call of a reader of imports/tiff.py: arguments, position, outcome

vars == <<stack, data, template, stackAxisID, method, subpixel,
          pc, i, driftlist, result, exc, frame, ctor, limitlist, tiff>>

inputs == <<stack, data, template, stackAxisID, method, subpixel>>

NoFrame == [at |-> "none", exc |-> "none"]

NoCtor == [given |-> FALSE]

NoLimits == [given |-> FALSE]

NoTiff == [fn |-> "none", pc |-> "none"]

\* A call template_matching_stack(data, template, stackAxisID, method, subpixel)
\* about to start.
Called(st, shape2, k, t, m, sp) ==
    /\ stack = st
    /\ data = StackAlong(st, shape2, k)
    /\ template = t
    /\ stackAxisID = AxisIndex(k)
    /\ method = m
    /\ subpixel = sp
    /\ pc = "call"
    /\ i = 0
    /\ driftlist = <<>>
    /\ result = <<>>
    /\ exc = "none"
    /\ frame = NoFrame
    /\ ctor = NoCtor
    /\ limitlist = NoLimits
    /\ tiff = NoTiff

SeqsUpTo(S, n) == UNION {[1..k -> S] : k \in 0..n}

\* Stacks of up to MaxSlices slices along any axis.
InitStack ==
    \E t \in Images(TemplateShape), k \in 0..2, m \in StackMethods, sp \in BOOLEAN :
        \E st \in SeqsUpTo(StackSlices(t), MaxSlices) :
            Called(st, SliceShape, k, t, m, sp)

\* One slice of the richer family, every enumerated method.
InitMatch ==
    \E t \in Images(TemplateShape), m \in MethodNames, sp \in BOOLEAN :
        \E s \in MatchSlices(t) :
            Called(<<s>>, SliceShape, 0, t, m, sp)

\* Stacks of equal slices the template does not fit in.
InitSmall ==
    \E t \in Images(TemplateShape), sh \in SmallShapes, m \in MethodNames, sp \in BOOLEAN :
        \E s \in Images(sh), n \in 1..MaxSlices :
            Called([k \in 1..n |-> s], sh, 0, t, m, sp)

\* One slice of the refinement family, matched with refinement.
InitPeak ==
    \E t \in Images(TemplateShape), m \in PeakMethods, s \in PeakSlices :
        Called(<<s>>, PeakShape, 0, t, m, TRUE)

\* Drift(data, template, stackAxisID, subpixel=..., method=...) about to be
\* constructed.
Constructing(st, sh, k, tg, sid, sp, m) ==
    /\ stack = st
    /\ ctor = [given |-> TRUE,
               data |-> [labels |-> ListInsert(<<"x", "y">>, k, "delay"),
                         arr |-> StackAlong(st, sh, k)],
               template |-> [given |-> tg,
                             ds |-> [labels |-> <<"x", "y">>,
                                     arr |-> Const(TemplateShape, MaxPix)]],
               stackAxisID |-> sid, subpixel |-> sp, method |-> m]
    /\ data = [shape |-> <<0, 0, 0>>, val |-> <<>>]
    /\ template = [shape |-> <<0, 0>>, val |-> <<>>]
    /\ stackAxisID = AxisNone
    /\ method = DefaultMethod
    /\ subpixel = DefaultSubpixel
    /\ pc = "init"
    /\ i = 0
    /\ driftlist = <<>>
    /\ result = <<>>
    /\ exc = "none"
    /\ frame = NoFrame
    /\ limitlist = NoLimits
    /\ tiff = NoTiff

\* The constructions: a dataset of axes 'delay', 'x', 'y' with the delay axis
\* at any position, no template or a template dataset, the stack axis left out, given
\* as the label or given as the index of the delay axis in the dataset.
InitCtor ==
    \E sh \in CtorShapes, n \in 1..MaxSlices, k \in 0..2, tg \in BOOLEAN,
       sp \in BOOLEAN, m \in {DefaultMethod, "cv.TM_SQDIFF"} :
        LET st == [j \in 1..n |-> Dot(sh, j - 1)]
        IN  \E sid \in {AxisNone, AxisLabel("delay"), AxisIndex(k)} :
                Constructing(st, sh, k, tg, sid, sp, m)

\* No Drift run: the state of a call of a reader.
NoDrift ==
    /\ stack = <<>>
    /\ data = [shape |-> <<0, 0, 0>>, val |-> <<>>]
    /\ template = [shape |-> <<0, 0>>, val |-> <<>>]
    /\ stackAxisID = AxisNone
    /\ method = DefaultMethod
    /\ subpixel = DefaultSubpixel
    /\ pc = "none"
    /\ i = 0
    /\ driftlist = <<>>
    /\ result = <<>>
    /\ exc = "none"
    /\ frame = NoFrame
    /\ ctor = NoCtor
    /\ limitlist = NoLimits

\* peem_camera_read(filepath, mode) about to start.
InitCamera ==
    \E f \in Paths, m \in CameraModes, tif \in CameraFiles :
        /\ NoDrift
        /\ tiff = [fn |-> "peem_camera_read", pc |-> "call", filepath |-> f,
                   mode |-> m, tif |-> tif]

\* peem_dld_read_terra(filepath) about to start.
InitDld ==
    \E f \in Paths, tif \in DldFiles :
        /\ NoDrift
        /\ tiff = [fn |-> "peem_dld_read_terra", pc |-> "call", filepath |-> f,
                   tif |-> tif]

Init == InitStack \/ InitMatch \/ InitSmall \/ InitPeak \/ InitCtor \/ InitCamera \/ InitDld

\* The displacement put in front of the list.
AppendDrift_Prepend(list, top_left) == <<top_left>> \o list

\* The displacement stored relative to that of the first slice (for unrefined
\* displacements).
AppendDrift_Relative(list, top_left) ==
    IF subpixel \/ list = <<>> THEN Append(list, top_left)
    ELSE Append(list, <<top_left[1] - list[1][1], top_left[2] - list[1][2]>>)

\* driftlist.append(...) of line 59.
AppendDrift(list, top_left) == Append(list, top_left)

\* Lines 12-50 up to the call of line 50: the axes are looked up, self.data is
\* extracted, self.template is extracted or guessed, and
\* template_matching_stack is called with self.data's field, self.template and
\* the stackAxisID argument as given (method and subpixel are not passed on).
Construct ==
    LET ds == ctor.data
        dstackAxisID == get_axis_index(ds, IF ctor.stackAxisID.tag = "None"
                                           THEN AxisLabel("delay") ELSE ctor.stackAxisID)
        dxAxisID == get_axis_index(ds, AxisLabel("x"))
        dyAxisID == get_axis_index(ds, AxisLabel("y"))
        guess == guess_templatedata(ds, AxisIndex(dxAxisID), AxisIndex(dyAxisID))
    IN  /\ pc = "init"
        /\ data' = extract_3Ddata(ds, dstackAxisID, dxAxisID, dyAxisID)
        /\ IF ctor.template.given
           THEN /\ template' = extract_templatedata(ctor.template.ds,
                                                    AxisLabel("x"), AxisLabel("y"))
                /\ limitlist' = limitlist
           ELSE /\ template' = guess.field
                /\ limitlist' = [given |-> TRUE, fieldshape |-> guess.fieldshape,
                                 x |-> guess.limitlist.x, y |-> guess.limitlist.y]
        /\ stackAxisID' = ctor.stackAxisID
        /\ method' = DefaultMethod
        /\ subpixel' = DefaultSubpixel
        /\ pc' = "call"
        /\ UNCHANGED <<stack, i, driftlist, result, exc, frame, ctor, tiff>>

\* Lines 53-55: the call starts, range(data.shape[stackAxisID]) is evaluated.
Enter ==
    /\ pc = "call"
    /\ LoopCount(data, stackAxisID).exc = "none"
    /\ pc' = "loop"
    /\ i' = 0
    /\ driftlist' = <<>>
    /\ UNCHANGED <<inputs, result, exc, frame, ctor, limitlist, tiff>>

\* Line 55 raises: data.shape[stackAxisID] with a stackAxisID that is no index.
EnterRaise ==
    /\ pc = "call"
    /\ LoopCount(data, stackAxisID).exc # "none"
    /\ pc' = "raised"
    /\ exc' = LoopCount(data, stackAxisID).exc
    /\ UNCHANGED <<inputs, i, driftlist, result, frame, ctor, limitlist, tiff>>

\* Lines 55-59, one iteration in which template_matching returns.
Iterate ==
    LET tm == template_matching(SliceAt(data, stackAxisID.index, i), template, method, subpixel)
    IN  /\ pc = "loop"
        /\ i < LoopCount(data, stackAxisID).n
        /\ tm.exc = "none"
        /\ driftlist' = AppendDrift(driftlist, tm.top_left)
        /\ i' = i + 1
        /\ frame' = tm
        /\ UNCHANGED <<inputs, pc, result, exc, ctor, limitlist, tiff>>

\* Lines 55-59, one iteration in which template_matching raises: the exception
\* leaves template_matching_stack, whose driftlist is lost.
IterateRaise ==
    LET tm == template_matching(SliceAt(data, stackAxisID.index, i), template, method, subpixel)
    IN  /\ pc = "loop"
        /\ i < LoopCount(data, stackAxisID).n
        /\ tm.exc # "none"
        /\ pc' = "raised"
        /\ exc' = tm.exc
        /\ frame' = tm
        /\ UNCHANGED <<inputs, i, driftlist, result, ctor, limitlist, tiff>>

\* Line 60: the loop is over, driftlist is returned.
Return ==
    /\ pc = "loop"
    /\ i = LoopCount(data, stackAxisID).n
    /\ pc' = "returned"
    /\ result' = driftlist
    /\ UNCHANGED <<inputs, i, driftlist, exc, frame, ctor, limitlist, tiff>>

drift == <<stack, data, template, stackAxisID, method, subpixel,
           pc, i, driftlist, result, exc, frame, ctor, limitlist>>

\* peem_camera_read, lines 132-135, a mode that returns.
CameraRead ==
    LET r == peem_camera_read(tiff.filepath, tiff.mode, tiff.tif)
    IN  /\ tiff.fn = "peem_camera_read"
        /\ tiff.pc = "call"
        /\ r.exc = "none"
        /\ tiff' = [tiff EXCEPT !.pc = "returned"] @@ [ret |-> r.ret]
        /\ UNCHANGED drift

\* peem_camera_read, lines 136-140, a mode that raises.
CameraReadRaise ==
    LET r == peem_camera_read(tiff.filepath, tiff.mode, tiff.tif)
    IN  /\ tiff.fn = "peem_camera_read"
        /\ tiff.pc = "call"
        /\ r.exc # "none"
        /\ tiff' = [tiff EXCEPT !.pc = "raised"] @@ [exc |-> r.exc]
        /\ UNCHANGED drift

\* peem_dld_read_terra, lines 79-91, for a file that has the tag: the file is
\* read, the tag searched, and T, St and Tbin taken from tag.value.
DldReadTag ==
    LET tag == search_tag(tiff.tif, roi_and_bin_id)
    IN  /\ tiff.fn = "peem_dld_read_terra"
        /\ tiff.pc = "call"
        /\ tag.found
        /\ tiff' = [tiff EXCEPT !.pc = "tagread"]
                     @@ [tag |-> tag, T |-> tag.tag.value[3], St |-> tag.tag.value[6],
                         Tbin |-> tag.tag.value[9]]
        /\ UNCHANGED drift

\* peem_dld_read_terra, lines 79-90, for a file without the tag: search_tag
\* returns None and tag.value of line 90 raises AttributeError.
DldReadTagRaise ==
    LET tag == search_tag(tiff.tif, roi_and_bin_id)
    IN  /\ tiff.fn = "peem_dld_read_terra"
        /\ tiff.pc = "call"
        /\ ~tag.found
        /\ tiff' = [tiff EXCEPT !.pc = "raised"] @@ [tag |-> tag, exc |-> "AttributeError"]
        /\ UNCHANGED drift

\* peem_dld_read_terra, lines 94-116: the DataSet is built and returned.
DldReturn ==
    /\ tiff.fn = "peem_dld_read_terra"
    /\ tiff.pc = "tagread"
    /\ tiff' = [tiff EXCEPT !.pc = "returned"]
                 @@ [ret |-> dld_dataset(tiff.filepath, tiff.tif, tiff.tag, tiff.T, tiff.Tbin)]
    /\ UNCHANGED drift

Next ==
    \/ Construct \/ Enter \/ EnterRaise \/ Iterate \/ IterateRaise \/ Return
    \/ CameraRead \/ CameraReadRaise \/ DldReadTag \/ DldReadTagRaise \/ DldReturn

Spec == Init /\ [][Next]_vars

\* ------------------------------------------------------------------ claims

\* The k-th slice (from 1) the loop takes from data.
Slice(k) == SliceAt(data, stackAxisID.index, k - 1)

\* The number of slices the loop takes from data.
NSlices == LoopCount(data, stackAxisID).n

\* The slice the last template_matching call was given.
LastSlice == Slice(IF pc = "raised" THEN i + 1 ELSE i)

\* The call is given the caller's stack: data holds the slices of stack along
\* the axis stackAxisID names.
StackGiven ==
    /\ stackAxisID.tag = "index"
    /\ data.shape[stackAxisID.index + 1] = Len(stack)
    /\ \A k \in 1..Len(stack) : stack[k].shape = ListDrop(data.shape, stackAxisID.index)
    /\ data = StackAlong(stack, ListDrop(data.shape, stackAxisID.index), stackAxisID.index)

\* A template_matching call has been made and got a correlation surface.
Matched == frame.at \in {"return", "subpixel_peak"}

\* The score of the surface at the point (x, y) = (column, row).
At(res, x, y) == res.val[<<y, x>>]

SameScore(a, b) == ~Less(a, b) /\ ~Less(b, a)

IsMinAt(res, loc) == \A q \in Idx2(res.shape) : ~Less(res.val[q], At(res, loc[1], loc[2]))

IsMaxAt(res, loc) == \A q \in Idx2(res.shape) : ~Less(At(res, loc[1], loc[2]), res.val[q])

\* The extremum template_matching selected is the only one of the surface.
StrictExtremum ==
    \A q \in Idx2(frame.res.shape) :
        q # <<frame.loc[2], frame.loc[1]>> =>
            ~SameScore(frame.res.val[q], At(frame.res, frame.loc[1], frame.loc[2]))

\* The point (x, y) lies in the first or last row or column of the surface.
OnBorder(res, loc) ==
    \/ loc[1] = 0 \/ loc[1] = res.shape[2] - 1
    \/ loc[2] = 0 \/ loc[2] = res.shape[1] - 1

\* C1: when template_matching_stack returns, the list holds exactly one
\* displacement per slice of the stack, and its k-th entry is the displacement
\* template_matching computes for the k-th slice; while the loop runs, driftlist
\* is that list for the slices done so far.
C1_OnePerSliceInOrder ==
    /\ (pc = "returned" /\ StackGiven) => result = driftlist /\ Len(result) = Len(stack)
    /\ (pc \in {"loop", "returned"} /\ StackGiven) =>
        /\ Len(driftlist) = i
        /\ \A k \in 1..Len(driftlist) :
            driftlist[k] = template_matching(stack[k], template, method, subpixel).top_left

\* A returned list of two different displacements.
C1_Witness ==
    /\ pc = "returned"
    /\ StackGiven
    /\ Len(result) >= 2
    /\ result[1] # result[2]

\* C2: for each of the six enumerated methods, the location template_matching
\* selects on the correlation surface is one of its global minimum when the
\* method is TM_SQDIFF or TM_SQDIFF_NORMED, and one of its global maximum for
\* the four other methods.
C2_ExtremumByMethod ==
    (Matched /\ method \in MethodNames) =>
        IF method \in {"cv.TM_SQDIFF", "cv.TM_SQDIFF_NORMED"}
        THEN IsMinAt(frame.res, frame.loc)
        ELSE IsMaxAt(frame.res, frame.loc)

\* A minimum selected for TM_SQDIFF_NORMED on a surface that is not flat.
C2_Witness ==
    /\ Matched
    /\ method = "cv.TM_SQDIFF_NORMED"
    /\ IsMinAt(frame.res, frame.loc)
    /\ ~IsMaxAt(frame.res, frame.loc)

\* The template is larger than the slice in a dimension.
TemplateLarger(slice, t) == t.shape[1] > slice.shape[1] \/ t.shape[2] > slice.shape[2]

\* The offsets at which the slice shows the template.
Occurrences(slice, t) == {off \in Offsets(slice.shape, t.shape) : OccursAt(slice, t, off)}

\* C3 as stated: with subpixel false, a slice that shows the template at one
\* integer offset (dx, dy), and only there, gets exactly (dx, dy), whatever the
\* enumerated method (read with the extremum of the surface being the only one,
\* so that no tie is involved).
C3_AsStated ==
    (frame.at = "return" /\ ~subpixel /\ method \in MethodNames /\ StrictExtremum) =>
        \A off \in Occurrences(LastSlice, template) :
            Occurrences(LastSlice, template) = {off} => frame.top_left = off

\* C3 as amended: with subpixel false, template_matching returns exactly the
\* unrefined integer coordinates of the extremum it located on the surface,
\* and when the method is TM_SQDIFF and the slice shows the template at one
\* offset (dx, dy) only, these are (dx, dy).
C3_UnrefinedExtremum ==
    (frame.at = "return" /\ ~subpixel /\ method \in MethodNames) =>
        /\ frame.top_left = frame.loc
        /\ frame.top_left \in Offsets(LastSlice.shape, template.shape)
                              \cup Offsets(template.shape, LastSlice.shape)
        /\ IF method \in {"cv.TM_SQDIFF", "cv.TM_SQDIFF_NORMED"}
           THEN IsMinAt(frame.res, frame.top_left)
           ELSE IsMaxAt(frame.res, frame.top_left)
        /\ method = "cv.TM_SQDIFF" =>
            \A off \in Occurrences(LastSlice, template) :
                Occurrences(LastSlice, template) = {off} => frame.top_left = off

\* TM_SQDIFF finds the template at its offset (2, 1), away from the origin.
C3_Witness ==
    /\ frame.at = "return"
    /\ ~subpixel
    /\ method = "cv.TM_SQDIFF"
    /\ Occurrences(LastSlice, template) = {<<2, 1>>}
    /\ frame.top_left = <<2, 1>>

\* C4 as stated: when refinement is requested and the extremum lies on the
\* border of the surface, the call raises: it returns no displacement read
\* from cells outside the surface or from its opposite edge (read for an
\* enumerated method, a template that fits and an extremum that is the only one).
C4_BorderRaises ==
    (/\ Matched /\ subpixel /\ method \in MethodNames
     /\ ~TemplateLarger(LastSlice, template)
     /\ StrictExtremum
     /\ OnBorder(frame.res, frame.loc)) => frame.exc # "none"

\* C5 as stated: with a template larger than the slices in either dimension,
\* the run over a stack of at least one slice raises and hands no list back.
C5_LargerTemplateRaises ==
    (/\ pc \in {"loop", "returned", "raised"} /\ stackAxisID.tag = "index"
     /\ NSlices >= 1 /\ TemplateLarger(Slice(1), template)) =>
        /\ pc # "returned"
        /\ frame.exc # "none" \/ frame.at = "none"

\* C6 as stated: with a method name outside the six enumerated ones, every
\* template_matching call raises before a correlation surface is computed.
C6_UnknownMethodRaises ==
    (method \notin MethodNames /\ frame.at # "none") =>
        /\ frame.exc # "none"
        /\ ~Matched

\* The point (x, y) has all four neighbours on the surface.
Interior(res, loc) == ~OnBorder(res, loc)

\* C7 as stated: in a refinement of an interior extremum (x, y) that returns,
\* the centre score used is the score at the extremum and the other four are
\* the scores of its neighbours along x (for x_sub) and along y (for y_sub).
C7_ReadsNeighbours ==
    (frame.at = "return" /\ subpixel /\ Interior(frame.res, frame.loc)) =>
        LET x == frame.loc[1]
            y == frame.loc[2]
            xs == frame.top_left[1]
            ys == frame.top_left[2]
        IN  /\ SameScore(xs.mid, At(frame.res, x, y))
            /\ SameScore(ys.mid, At(frame.res, x, y))
            /\ SameScore(xs.lo, At(frame.res, x - 1, y))
            /\ SameScore(xs.hi, At(frame.res, x + 1, y))
            /\ SameScore(ys.lo, At(frame.res, x, y - 1))
            /\ SameScore(ys.hi, At(frame.res, x, y + 1))

Faulty(slice) ==
    LET tm == template_matching(slice, template, method, FALSE)
    IN  /\ subpixel
        /\ tm.exc = "none"
        /\ OnBorder(tm.res, tm.loc)
        /\ \A q \in Idx2(tm.res.shape) :
            q # <<tm.loc[2], tm.loc[1]>> =>
                ~SameScore(tm.res.val[q], At(tm.res, tm.loc[1], tm.loc[2]))

C8_GuessLimits ==
    limitlist.given =>
        /\ \A a \in 1..2 : limitlist.fieldshape[a] >= 1
        /\ LET IsFloor(q, num, dim) == q \in Int /\ 5 * q <= num * dim /\ num * dim < 5 * (q + 1)
           IN  /\ IsFloor(limitlist.x[1], 2, limitlist.fieldshape[1])
               /\ IsFloor(limitlist.x[2], 3, limitlist.fieldshape[1])
               /\ IsFloor(limitlist.y[1], 2, limitlist.fieldshape[2])
               /\ IsFloor(limitlist.y[2], 3, limitlist.fieldshape[2])

\* A template guessed from a dataset of 4 by 5 pixels: limits (1, 2) and (2, 3),
\* neither dim * 2/5 nor dim * 3/5 being whole for dim = 4.
C8_Witness ==
    /\ limitlist.given
    /\ limitlist.fieldshape = <<4, 5>>
    /\ limitlist.x = <<1, 2>>
    /\ limitlist.y = <<2, 3>>

\* The scores the refinement of the extremum (x, y) is about: the extremum and
\* its four neighbours on the surface.
PeakScores(res, loc) ==
    {At(res, loc[1], loc[2]), At(res, loc[1] - 1, loc[2]), At(res, loc[1] + 1, loc[2]),
     At(res, loc[1], loc[2] - 1), At(res, loc[1], loc[2] + 1)}

\* C12 as stated: when refinement is requested and the score of the extremum
\* or of one of its four neighbours is not positive, the call raises and
\* returns no displacement, in particular no nan or infinite one (read for an
\* interior extremum of an enumerated method and a template that fits).
C12_NonPositiveRaises ==
    (/\ Matched /\ subpixel /\ method \in MethodNames
     /\ ~TemplateLarger(LastSlice, template)
     /\ Interior(frame.res, frame.loc)
     /\ \E v \in PeakScores(frame.res, frame.loc) : v.num <= 0) =>
        /\ frame.exc # "none"
        /\ frame.at # "return"

\* C13 as stated: in a construction, the subpixel flag and the method given to
\* Drift(...) are the ones every slice is matched with: with subpixel=False
\* the displacements are the unrefined integer extrema, and with a method of
\* the SSD family the location matched is a minimum of the surface.
C13_CtorFlagsApplied ==
    (ctor.given /\ pc \in {"loop", "returned", "raised"} /\ frame.at # "none") =>
        /\ subpixel = ctor.subpixel
        /\ method = ctor.method
        /\ (frame.at = "return" /\ ~ctor.subpixel) => frame.top_left = frame.loc
        /\ (Matched /\ ctor.method \in {"cv.TM_SQDIFF", "cv.TM_SQDIFF_NORMED"}) =>
            IsMinAt(frame.res, frame.loc)

\* C14 as stated: in a construction, however the stack axis is selected (left
\* out, given as a label, given as an index into the dataset), the loop runs
\* over the sequence axis (axis 0) of the extracted (sequence, x, y) array:
\* every slice matched is an (x, y) image and a list that is returned has as
\* many displacements as the sequence axis is long.
C14_LoopOverSequenceAxis ==
    (ctor.given /\ pc \in {"loop", "returned", "raised"}) =>
        /\ stackAxisID.tag = "index"
        /\ stackAxisID.index = 0
        /\ frame.at # "none" => LastSlice.shape = <<data.shape[2], data.shape[3]>>
        /\ pc = "returned" => Len(result) = data.shape[1]

\* The scores of the extremum's four neighbours are positive, and so is its own.
PositivePeak(res, loc) == \A v \in PeakScores(res, loc) : v.num > 0

\* C16 as stated: a displacement returned with subpixel true for a
\* maximum-based method whose integer maximum is interior, the only maximum of
\* the surface and has positive neighbouring scores lies, in each coordinate,
\* less than half a pixel from the integer coordinate of the maximum.
C16_WithinHalfPixel ==
    (/\ frame.at = "return" /\ subpixel
     /\ method \in MethodNames \ {"cv.TM_SQDIFF", "cv.TM_SQDIFF_NORMED"}
     /\ ~TemplateLarger(LastSlice, template)
     /\ Interior(frame.res, frame.loc)
     /\ StrictExtremum
     /\ PositivePeak(frame.res, frame.loc)) =>
        /\ frame.top_left[1].base = frame.loc[1]
        /\ frame.top_left[2].base = frame.loc[2]
        /\ RefinedAs(frame.top_left[1]) = "within"
        /\ RefinedAs(frame.top_left[2]) = "within"

\* C11 as stated: peem_camera_read returns the DataSet generated from the file
\* for the modes "camware" and "terra", raises NotImplementedError for "pne"
\* and ValueError for every other mode.
C11_CameraReadByMode ==
    (tiff.fn = "peem_camera_read" /\ tiff.pc \in {"returned", "raised"}) =>
        IF tiff.mode \in {"camware", "terra"}
        THEN /\ tiff.pc = "returned"
             /\ tiff.ret.kind = "DataSet"
             /\ tiff.ret.label = tiff.filepath.base
             /\ tiff.ret.field = tiff.tif.pages[1].image
        ELSE /\ tiff.pc = "raised"
             /\ tiff.exc = (IF tiff.mode = "pne" THEN "NotImplementedError" ELSE "ValueError")

\* C15 as stated: peem_dld_read_terra returns for a file without the
\* ROI-and-bin tag as well, with the time-channel axis 0 .. n-1 for the n
\* channels left after the sum and error images; with the tag the axis is
\* T + i * Tbin for i in 0 .. n-1.
C15_TimeAxis ==
    (tiff.fn = "peem_dld_read_terra" /\ tiff.pc \in {"returned", "raised"}) =>
        LET tag == search_tag(tiff.tif, roi_and_bin_id)
            n == Len(tiff.tif.pages) - 2
        IN  /\ tiff.pc = "returned"
            /\ tiff.ret.axes[1].values =
                 IF tag.found
                 THEN [k \in 1..n |-> tag.tag.value[3] + (k - 1) * tag.tag.value[9]]
                 ELSE [k \in 1..n |-> k - 1]

====
